---- MODULE Spec2Model ----
(***************************************************************************)
(* Playback engine (src/src/core/player.py, MusicPlayer) and position      *)
(* tracker (src/src/controllers/player_controller.py, PlayerController)    *)
(* of the Melodia music player, as a state machine.                        *)
(*                                                                         *)
(* Time is counted in units of one position-timer interval                 *)
(* (POSITION_UPDATE_INTERVAL ms).  Positions, durations and the elapsed    *)
(* wall-clock time of a fade are whole numbers of such units.  For whole   *)
(* positions the source's test  position >= duration - 0.1  is             *)
(* position >= duration.  Volumes are per-mille integers (0..1000).        *)
(* Tracks are numbered 1..NumTracks, 0 is Python's None; a loaded source   *)
(* is identified with its track.                                           *)
(***************************************************************************)
EXTENDS Integers, Sequences, FiniteSets, TLC

\* ------------------------------------------------------------------ bounds
NumTracks == 2
MaxOrphans == 1
MaxQueue == 6

\* ------------------------------------------------------- program constants
DEFAULT_VOLUME == 70
POSITION_UPDATE_INTERVAL == 500
DEFAULT_CROSSFADE_ENABLED == FALSE

UnitsPerSecond == 1000 \div POSITION_UPDATE_INTERVAL

\* Positions of the crossfade-duration slider (0..12 s) that the model uses.
CrossfadeDurations == {0, 1}
\* Levels of the volume slider (per cent) that the model uses.
VolumeChoices == {40, DEFAULT_VOLUME}

\* the longest fade, in units; every track lasts one unit longer
MaxElapsed == UnitsPerSecond * (CHOOSE d \in CrossfadeDurations : \A x \in CrossfadeDurations : x <= d)
TrackDuration == MaxElapsed + 1
\* every restart of a fade leaves one more Tk callback pending
MaxAfter == MaxOrphans + 1

None == 0
Feed(n) == [i \in 1..n |-> i]

Min(a, b) == IF a < b THEN a ELSE b

VARIABLES
    player,               \* MusicPlayer.player: the primary pyglet Player
    next_player,          \* MusicPlayer.next_player: the incoming pyglet Player
    orphans,              \* started Players the engine no longer references
    current_song,
    current_source,
    is_playing,
    is_seeking,
    crossfade_enabled,
    crossfade_duration,
    is_crossfading,
    crossfade_start_time, \* time.time() - crossfade_start_time, -1 for None
    original_volume,
    next_song,            \* MusicPlayer._next_song, None when the attribute is absent
    crossfade_timer_id,   \* MusicPlayer._crossfade_timer_id: "none", "live", "stale"
    after_crossfade,      \* pending Tk callbacks of _crossfade_timer_callback
    current_index,        \* PlayerController.current_index
    position_update_id,   \* PlayerController._position_update_id: "none", "live", "stale"
    after_position,       \* pending Tk callbacks of update_position_timer
    ui_queue,             \* AppContext.ui_queue
    feed_items,           \* AppContext.feed_items
    callbacks,            \* MusicPlayer._callbacks: the handler under each name
    current_playlist,     \* MusicPlayer.current_playlist, "" for None
    api_playlists,        \* PlaylistService.playlist_manager.playlists
    music_data,           \* the 'playlists' entry of music_data.json
    api_result,           \* what the last PlaylistService call returned
    obs                   \* what the last handler did: callbacks fired, errors shown

vars == <<player, next_player, orphans, current_song, current_source, is_playing,
          is_seeking, crossfade_enabled, crossfade_duration, is_crossfading,
          crossfade_start_time, original_volume, next_song, crossfade_timer_id,
          after_crossfade, current_index, position_update_id, after_position,
          ui_queue, feed_items, callbacks, current_playlist, api_playlists,
          music_data, api_result, obs>>

\* --------------------------------------------------------- pyglet Player
\* A pyglet.media.Player: the queued source, the playing flag, the volume and
\* the playback time.  exists = FALSE stands for None.
NoPlayer == [exists |-> FALSE, source |-> None, playing |-> FALSE, volume |-> 0, time |-> 0]

NewPlayer == [exists |-> TRUE, source |-> None, playing |-> FALSE, volume |-> 1000, time |-> 0]

PlayerPause(p) == [p EXCEPT !.playing = FALSE]

PlayerPlay(p) == [p EXCEPT !.playing = TRUE]

\* while player.source: player.next_source()
PlayerDrain(p) == IF p.source # None
                  THEN [p EXCEPT !.source = None, !.playing = FALSE, !.time = 0]
                  ELSE p

PlayerQueue(p, src) == IF p.source = None THEN [p EXCEPT !.source = src, !.time = 0] ELSE p

PlayerSeek(p, t) == [p EXCEPT !.time = t]

\* An output is held while it exists with a source queued.
Held(p) == p.exists /\ p.source # None

\* ------------------------------------------------------------ the world
\* The handlers call each other, so each is an operator from the program
\* state (a record of all fields) to the program state.  fired, errors and
\* path collect what one handler does: the callbacks it invokes, the error
\* boxes it shows and the branches it takes; ran lists the handler run for
\* each callback and arg holds the handler's own argument.
World == [player |-> player, next_player |-> next_player, orphans |-> orphans,
          current_song |-> current_song, current_source |-> current_source,
          is_playing |-> is_playing, is_seeking |-> is_seeking,
          crossfade_enabled |-> crossfade_enabled,
          crossfade_duration |-> crossfade_duration,
          is_crossfading |-> is_crossfading,
          crossfade_start_time |-> crossfade_start_time,
          original_volume |-> original_volume, next_song |-> next_song,
          crossfade_timer_id |-> crossfade_timer_id,
          after_crossfade |-> after_crossfade, current_index |-> current_index,
          position_update_id |-> position_update_id,
          after_position |-> after_position, ui_queue |-> ui_queue,
          feed_items |-> feed_items, callbacks |-> callbacks,
          current_playlist |-> current_playlist,
          fired |-> <<>>, ran |-> <<>>, arg |-> <<>>, errors |-> 0, path |-> <<>>]

Note(w, tag) == [w EXCEPT !.path = Append(@, tag)]

Took(path, tag) == \E i \in 1..Len(path) : path[i] = tag

\* ------------------------------------------------- PlayerController callbacks
schedule_ui_update(w, func) == [w EXCEPT !.ui_queue = Append(@, func)]

OnPlay(w) == schedule_ui_update(w, "play")

OnPause(w) == schedule_ui_update(w, "pause")

\* the queued update of _on_song_change writes two labels and nothing else
OnSongChange(w, song) == w

\* The names the engine calls back under.
CallbackNames == {"on_play", "on_pause", "on_song_change"}

\* A handler is PlayerController's method for the name ("ui") or a function
\* that raises when it is called ("raises"); "none" is a name with no
\* handler.
Handlers == {"ui", "raises"}

\* _setup_player_callbacks
Registered == [name \in CallbackNames |-> "ui"]

\* set_callback that keeps the handler a name already has
SetCallbackToKeepingFirst(w, name, handler) ==
    IF w.callbacks[name] = "none" THEN [w EXCEPT !.callbacks[name] = handler] ELSE w

\* MusicPlayer.set_callback
SetCallbackTo(w, name, handler) == [w EXCEPT !.callbacks[name] = handler]

\* _call_callback where an exception of the handler reaches the caller, which
\* gives up the rest of its transition
CallCallbackPropagating(w, name, song) ==
    LET handler == w.callbacks[name]
    IN  IF handler = "none" \/ Took(w.path, "raised")
        THEN w
        ELSE LET w1 == [w EXCEPT !.fired = Append(@, <<name, song>>),
                                 !.ran = Append(@, handler)]
             IN  CASE handler = "raises" -> Note(w1, "raised")
                   [] handler = "ui" /\ name = "on_play" -> OnPlay(w1)
                   [] handler = "ui" /\ name = "on_pause" -> OnPause(w1)
                   [] handler = "ui" /\ name = "on_song_change" -> OnSongChange(w1, song)
                   [] OTHER -> w1

\* MusicPlayer._call_callback: the handler under the name, if any, is called
\* and whatever it raises is suppressed
CallCallback(w, name, song) ==
    LET handler == w.callbacks[name]
    IN  IF handler = "none"
        THEN w
        ELSE LET w1 == [w EXCEPT !.fired = Append(@, <<name, song>>),
                                 !.ran = Append(@, handler)]
             IN  CASE handler = "ui" /\ name = "on_play" -> OnPlay(w1)
                   [] handler = "ui" /\ name = "on_pause" -> OnPause(w1)
                   [] handler = "ui" /\ name = "on_song_change" -> OnSongChange(w1, song)
                   [] OTHER -> w1

\* ---------------------------------------------------- crossfade timer
StartCrossfadeTimer(w) ==
    [w EXCEPT !.crossfade_timer_id = "live", !.after_crossfade = @ + 1]

StopCrossfadeTimer(w) ==
    IF w.crossfade_timer_id # "none"
    THEN [w EXCEPT !.after_crossfade = IF w.crossfade_timer_id = "live" THEN @ - 1 ELSE @,
                   !.crossfade_timer_id = "none"]
    ELSE w

\* ---------------------------------------------------- _finish_crossfade
\* The outgoing Player after "if playing: pause()" and the drain loop.
StopOutgoing(p) == PlayerDrain(IF p.playing THEN PlayerPause(p) ELSE p)

\* A Player the engine lets go of keeps sounding if it was never stopped.
Dropped(p, n) == IF Held(p) /\ p.playing THEN n + 1 ELSE n

\* lines 241-247: the pending track becomes the current one
PromoteNextSong(w) ==
    IF w.next_song # None
    THEN CallCallback(
           CallCallback([w EXCEPT !.current_song = w.next_song,
                                  !.current_source = w.next_song,
                                  !.is_playing = TRUE],
                        "on_song_change", w.next_song),
           "on_play", None)
    ELSE w

\* FinishCrossfade that promotes the incoming output at the volume it has
FinishCrossfadeKeepingVolume(w) ==
    LET w1 == StopCrossfadeTimer(w)
    IN  IF w1.next_player.exists
        THEN LET w2 == [w1 EXCEPT !.orphans = Dropped(StopOutgoing(w1.player), @),
                                  !.player = w1.next_player]
                 w3 == PromoteNextSong(w2)
             IN  Note([w3 EXCEPT !.next_player = NoPlayer,
                                 !.is_crossfading = FALSE,
                                 !.crossfade_start_time = -1,
                                 !.next_song = None], "finish")
        ELSE w1

\* lines 220-267
FinishCrossfade(w) ==
    LET w1 == StopCrossfadeTimer(w)
    IN  IF w1.next_player.exists
        THEN LET w2 == [w1 EXCEPT !.orphans = Dropped(StopOutgoing(w1.player), @),
                                  !.player = [w1.next_player EXCEPT !.volume = w1.original_volume]]
                 w3 == PromoteNextSong(w2)
             IN  Note([w3 EXCEPT !.next_player = NoPlayer,
                                 !.is_crossfading = FALSE,
                                 !.crossfade_start_time = -1,
                                 !.next_song = None], "finish")
        ELSE w1

\* ---------------------------------------------------- _start_crossfade
\* StartCrossfade whose incoming output keeps the volume a new Player has
StartCrossfadeAtFullVolume(w, song, fault) ==
    LET w1 == [w EXCEPT !.original_volume = w.player.volume]
        lost == Dropped(w.next_player, w.orphans)
        made == NewPlayer
    IN  CASE fault = "create" -> FinishCrossfade(Note(w1, "abort"))
          [] fault = "queue" ->
               FinishCrossfade(Note([w1 EXCEPT !.next_player = made, !.orphans = lost], "abort"))
          [] fault = "start" ->
               FinishCrossfade(Note([w1 EXCEPT !.next_player = PlayerQueue(made, song),
                                               !.orphans = lost], "abort"))
          [] OTHER ->
               StartCrossfadeTimer(
                 Note([w1 EXCEPT !.next_player = PlayerPlay(PlayerQueue(made, song)),
                                 !.orphans = lost,
                                 !.is_crossfading = TRUE,
                                 !.crossfade_start_time = 0,
                                 !.next_song = song], "crossfade"))

\* fault: the pyglet call that raises, if any ("none", "create", "queue", "start")
StartCrossfade(w, song, fault) ==
    LET w1 == [w EXCEPT !.original_volume = w.player.volume]
        lost == Dropped(w.next_player, w.orphans)
        made == [NewPlayer EXCEPT !.volume = 0]
    IN  CASE fault = "create" -> FinishCrossfade(Note(w1, "abort"))
          [] fault = "queue" ->
               FinishCrossfade(Note([w1 EXCEPT !.next_player = made, !.orphans = lost], "abort"))
          [] fault = "start" ->
               FinishCrossfade(Note([w1 EXCEPT !.next_player = PlayerQueue(made, song),
                                               !.orphans = lost], "abort"))
          [] OTHER ->
               StartCrossfadeTimer(
                 Note([w1 EXCEPT !.next_player = PlayerPlay(PlayerQueue(made, song)),
                                 !.orphans = lost,
                                 !.is_crossfading = TRUE,
                                 !.crossfade_start_time = 0,
                                 !.next_song = song], "crossfade"))

\* ---------------------------------------------------- MusicPlayer.play_song
\* CrossfadeCondition without the test of is_playing
CrossfadeConditionWhilePaused(w) ==
    /\ w.crossfade_enabled
    /\ w.current_song # None
    /\ w.crossfade_duration > 0

\* lines 59-62
CrossfadeCondition(w) ==
    /\ w.crossfade_enabled
    /\ w.current_song # None
    /\ w.is_playing
    /\ w.crossfade_duration > 0

\* ImmediateSwitch with the two callbacks in the other order
ImmediateSwitchPlayFirst(w, song) ==
    LET p == PlayerPlay(PlayerQueue(StopOutgoing(w.player), song))
        w1 == [w EXCEPT !.player = p,
                        !.current_song = song,
                        !.current_source = song,
                        !.is_playing = TRUE]
    IN  CallCallback(CallCallback(Note(w1, "immediate"), "on_play", None),
                     "on_song_change", song)

\* lines 65-80: normal playback without crossfade
ImmediateSwitch(w, song) ==
    LET p == PlayerPlay(PlayerQueue(StopOutgoing(w.player), song))
        w1 == [w EXCEPT !.player = p,
                        !.current_song = song,
                        !.current_source = song,
                        !.is_playing = TRUE]
    IN  CallCallback(CallCallback(Note(w1, "immediate"), "on_song_change", song),
                     "on_play", None)

\* EnginePlaySong that stops the current output before it loads the file
EnginePlaySongStopFirst(w, song, load, fault) ==
    LET w0 == [w EXCEPT !.player = StopOutgoing(@)]
    IN  CASE load = "missing" -> Note(w0, "missing")
          [] load = "error" -> Note([w0 EXCEPT !.errors = @ + 1], "error")
          [] OTHER ->
               IF CrossfadeCondition(w)
               THEN StartCrossfade(w, song, fault)
               ELSE ImmediateSwitch(w, song)

\* load: "ok", "missing" (Path.exists() is false), "error" (pyglet.media.load raises)
EnginePlaySong(w, song, load, fault) ==
    CASE load = "missing" -> Note(w, "missing")
      [] load = "error" -> Note([w EXCEPT !.errors = @ + 1], "error")
      [] OTHER ->
           IF CrossfadeCondition(w)
           THEN StartCrossfade(w, song, fault)
           ELSE ImmediateSwitch(w, song)

\* ---------------------------------------------------- _update_crossfade
\* cos(x * pi / 2) ** 2 in per-mille at x = j / 12, j = 0..12
Cos2Table == <<1000, 983, 933, 854, 750, 629, 500, 371, 250, 146, 67, 17, 0>>

\* progress = min(elapsed / crossfade_duration, 1.0), as a twelfth
Progress12(elapsed, duration) ==
    LET n == duration * UnitsPerSecond
    IN  (Min(elapsed, n) * 12) \div n

FadeOutVolume(elapsed, duration) == Cos2Table[Progress12(elapsed, duration) + 1]

\* FadeInVolume that follows the fade-out weight
FadeInVolumeFalling(elapsed, duration) == Cos2Table[Progress12(elapsed, duration) + 1]

\* sin(x * pi / 2) ** 2 = 1 - cos(x * pi / 2) ** 2
FadeInVolume(elapsed, duration) == 1000 - Cos2Table[Progress12(elapsed, duration) + 1]

Scale(volume, weight) == (volume * weight) \div 1000

\* lines 171-182: the progress (as a twelfth) and the volumes applied to the
\* outgoing and the incoming output
CrossfadeSample(w) ==
    <<Progress12(w.crossfade_start_time, w.crossfade_duration),
      Scale(w.original_volume, FadeOutVolume(w.crossfade_start_time, w.crossfade_duration)),
      Scale(w.original_volume, FadeInVolume(w.crossfade_start_time, w.crossfade_duration))>>

UpdateCrossfade(w) ==
    IF ~w.is_crossfading \/ ~w.next_player.exists
    THEN w
    ELSE IF w.crossfade_start_time < 0 \/ w.crossfade_duration = 0
         THEN \* TypeError / ZeroDivisionError: the except branch
              FinishCrossfade(Note(w, "tick_error"))
         ELSE LET e == w.crossfade_start_time
                  d == w.crossfade_duration
                  w1 == [w EXCEPT !.player.volume = Scale(w.original_volume, FadeOutVolume(e, d)),
                                  !.next_player.volume = Scale(w.original_volume, FadeInVolume(e, d))]
              IN  IF Progress12(e, d) >= 12
                  THEN FinishCrossfade(Note(w1, "complete"))
                  ELSE Note(w1, "fade")

\* _crossfade_timer_callback, run by Tk for one pending callback; tracked says
\* whether it is the one _crossfade_timer_id names.
CrossfadeTimerCallback(w, tracked) ==
    LET w0 == [w EXCEPT !.after_crossfade = @ - 1,
                        !.crossfade_timer_id = IF tracked THEN "stale" ELSE @]
    IN  IF w0.is_crossfading
        THEN LET w1 == UpdateCrossfade(w0)
             IN  IF w1.is_crossfading
                 THEN [w1 EXCEPT !.crossfade_timer_id = "live", !.after_crossfade = @ + 1]
                 ELSE w1
        ELSE Note([w0 EXCEPT !.crossfade_timer_id = "none"], "dead_tick")

\* ---------------------------------------------------- play / pause / toggle
EnginePlay(w) ==
    CallCallback([w EXCEPT !.player = PlayerPlay(@), !.is_playing = TRUE], "on_play", None)

\* pause that resumes an output that is already paused
EnginePauseToggling(w) ==
    CallCallback([w EXCEPT !.player = IF @.playing THEN PlayerPause(@) ELSE PlayerPlay(@),
                           !.is_playing = FALSE], "on_pause", None)

EnginePause(w) ==
    CallCallback([w EXCEPT !.player = PlayerPause(@), !.is_playing = FALSE], "on_pause", None)

\* toggle_play that drives the output without going through play and pause
EngineTogglePlayOutputOnly(w) ==
    IF w.is_playing
    THEN [w EXCEPT !.player = PlayerPause(@)]
    ELSE [w EXCEPT !.player = PlayerPlay(@)]

EngineTogglePlay(w) == IF w.is_playing THEN EnginePause(w) ELSE EnginePlay(w)

\* set_volume that leaves the fade reference alone during a crossfade
EngineSetVolumeOutsideFade(w, volume) ==
    IF w.is_crossfading
    THEN [w EXCEPT !.player.volume = volume]
    ELSE [w EXCEPT !.player.volume = volume, !.original_volume = volume]

\* lines 106-114: both branches assign original_volume
EngineSetVolume(w, volume) == [w EXCEPT !.player.volume = volume, !.original_volume = volume]

\* seek without the test of player.source
EngineSeekUnguarded(w, position) == [w EXCEPT !.player = PlayerSeek(@, position)]

EngineSeek(w, position) ==
    IF w.player.source # None THEN [w EXCEPT !.player = PlayerSeek(@, position)] ELSE w

Position(w) == IF w.player.source # None THEN w.player.time ELSE 0

Duration(w) == IF w.player.source # None THEN TrackDuration ELSE 0

\* ---------------------------------------------------- PlayerController
\* index of the song in the list (0-based), -1 when absent
IndexOf(list, song) ==
    IF \E i \in 1..Len(list) : list[i] = song
    THEN (CHOOSE i \in 1..Len(list) : list[i] = song /\ \A j \in 1..(i - 1) : list[j] # song) - 1
    ELSE -1

\* No playlist context: None, which play_song also writes over an empty name.
NoPlaylist == ""

PlaylistNames == {"mix"}

\* PlaylistManager.get_playlist_songs on AppContext.playlist_manager: the one
\* playlist the program loaded holds the feed's tracks in reverse order.
GetPlaylistSongs(name) ==
    IF name = "mix" THEN [i \in 1..NumTracks |-> NumTracks + 1 - i] ELSE <<>>

\* the current song list: the playlist's songs under a playlist context,
\* else the feed
ActiveSongs(w) ==
    IF w.current_playlist # NoPlaylist
    THEN GetPlaylistSongs(w.current_playlist)
    ELSE w.feed_items

\* _update_current_index
UpdateCurrentIndex(w, song) ==
    LET i == IndexOf(ActiveSongs(w), song)
    IN  [w EXCEPT !.current_index = IF i >= 0 THEN i ELSE 0]

\* PlayerController.play_song
ControllerPlaySong(w, song, load, fault) ==
    UpdateCurrentIndex(EnginePlaySong(w, song, load, fault), song)

\* _navigate_song
NavigateSong(w, direction, load, fault) ==
    IF w.current_song = None \/ Len(ActiveSongs(w)) = 0
    THEN w
    ELSE LET i == IndexOf(ActiveSongs(w), w.current_song)
         IN  IF i # -1
             THEN ControllerPlaySong(w, ActiveSongs(w)[((i + direction) % Len(ActiveSongs(w))) + 1],
                                     load, fault)
             ELSE w

\* _handle_play_song: the 'play_song' event
HandlePlaySongEvent(w, song, load, fault) ==
    ControllerPlaySong([w EXCEPT !.current_playlist = NoPlaylist], song, load, fault)

\* _handle_play_playlist: the 'play_playlist' event
HandlePlayPlaylistEvent(w, name, songs, load, fault) ==
    IF name # NoPlaylist /\ Len(songs) > 0
    THEN ControllerPlaySong([w EXCEPT !.current_playlist = name], songs[1], load, fault)
    ELSE w

\* PlaylistController.play_song_from_playlist; EventBus.publish runs the
\* subscribed handler before it returns
PlaySongFromPlaylistCall(w, song, playlist_name, load, fault) ==
    HandlePlaySongEvent([w EXCEPT !.current_playlist = playlist_name], song, load, fault)

\* PlaylistController.play_playlist
PlayPlaylistCall(w, name, load, fault) ==
    IF Len(GetPlaylistSongs(name)) > 0
    THEN HandlePlayPlaylistEvent(w, name, GetPlaylistSongs(name), load, fault)
    ELSE w

\* stop_position_timer that clears the handle without cancelling the callback
StopPositionTimerForgetting(w) == [w EXCEPT !.position_update_id = "none"]

\* lines 307-311
StopPositionTimer(w) ==
    IF w.position_update_id # "none"
    THEN [w EXCEPT !.after_position = IF w.position_update_id = "live" THEN @ - 1 ELSE @,
                   !.position_update_id = "none"]
    ELSE w

\* TriggerAutoCrossfade that leaves current_index alone
TriggerAutoCrossfadeKeepingIndex(w, load, fault) ==
    IF w.current_index < Len(ActiveSongs(w)) - 1
    THEN EnginePlaySong(Note(w, "auto_crossfade"),
                        ActiveSongs(w)[w.current_index + 2], load, fault)
    ELSE w

\* lines 373-385
TriggerAutoCrossfade(w, load, fault) ==
    IF w.current_index < Len(ActiveSongs(w)) - 1
    THEN LET w1 == EnginePlaySong(Note(w, "auto_crossfade"),
                                  ActiveSongs(w)[w.current_index + 2], load, fault)
         IN  [w1 EXCEPT !.current_index = @ + 1]
    ELSE w

\* lines 357-365: the end of the last track
StopAtEnd(w) ==
    StopPositionTimer(
      EngineSeek(OnPause([EnginePause(Note(w, "stop")) EXCEPT !.is_playing = FALSE]), 0))

\* EndOfTrackDecision that goes to the next song from the last track too
EndOfTrackDecisionWrapping(w, position, duration, load, fault) ==
    IF /\ w.crossfade_enabled
       /\ ~w.is_crossfading
       /\ w.crossfade_duration > 0
       /\ position >= duration - w.crossfade_duration * UnitsPerSecond
    THEN IF w.current_index < Len(ActiveSongs(w)) - 1
         THEN TriggerAutoCrossfade(w, load, fault)
         ELSE Note(w, "no_next")
    ELSE IF position >= duration
         THEN NavigateSong(Note(w, "advance"), 1, load, fault)
         ELSE Note(w, "idle")

\* lines 347-365: crossfade or song end
EndOfTrackDecision(w, position, duration, load, fault) ==
    IF /\ w.crossfade_enabled
       /\ ~w.is_crossfading
       /\ w.crossfade_duration > 0
       /\ position >= duration - w.crossfade_duration * UnitsPerSecond
    THEN IF w.current_index < Len(ActiveSongs(w)) - 1
         THEN TriggerAutoCrossfade(w, load, fault)
         ELSE Note(w, "no_next")
    ELSE IF position >= duration
         THEN IF w.current_index < Len(ActiveSongs(w)) - 1
              THEN NavigateSong(Note(w, "advance"), 1, load, fault)
              ELSE StopAtEnd(w)
         ELSE Note(w, "idle")

\* TrackerBody that also works while the position slider is held
TrackerBodyWhileSeeking(w, load, fault) ==
    IF w.current_source # None /\ w.is_playing
    THEN IF Duration(w) > 0
         THEN EndOfTrackDecision(w, Position(w), Duration(w), load, fault)
         ELSE Note(w, "no_duration")
    ELSE Note(w, "skip")

\* the body of update_position_timer under "with suppress(Exception)"
TrackerBody(w, load, fault) ==
    IF w.current_source # None /\ w.is_playing /\ ~w.is_seeking
    THEN IF Duration(w) > 0
         THEN EndOfTrackDecision(w, Position(w), Duration(w), load, fault)
         ELSE Note(w, "no_duration")
    ELSE Note(w, "skip")

\* Rearm that schedules the next update whenever a source is loaded
RearmWhileLoaded(w) ==
    IF w.current_source # None
    THEN [w EXCEPT !.position_update_id = "live", !.after_position = @ + 1]
    ELSE [w EXCEPT !.position_update_id = "none"]

\* lines 367-371: schedule the next update
Rearm(w) ==
    IF w.is_playing /\ w.current_source # None
    THEN [w EXCEPT !.position_update_id = "live", !.after_position = @ + 1]
    ELSE [w EXCEPT !.position_update_id = "none"]

\* update_position_timer called directly
UpdatePositionTimer(w, load, fault) == Rearm(TrackerBody(w, load, fault))

\* update_position_timer run by Tk for one pending callback; tracked says
\* whether it is the one _position_update_id names
PositionTimerCallback(w, tracked, load, fault) ==
    UpdatePositionTimer([w EXCEPT !.after_position = @ - 1,
                                  !.position_update_id = IF tracked THEN "stale" ELSE @],
                        load, fault)

\* MusicApp._process_ui_queue: run queued functions until the queue is empty
RECURSIVE ProcessUiQueue(_, _, _)
ProcessUiQueue(w, load, fault) ==
    IF w.ui_queue = <<>>
    THEN w
    ELSE LET func == Head(w.ui_queue)
             w1 == [w EXCEPT !.ui_queue = Tail(@)]
         IN  CASE func = "play" ->
                    ProcessUiQueue(IF w1.position_update_id = "none"
                                   THEN UpdatePositionTimer(w1, load, fault)
                                   ELSE w1, load, fault)
               [] func = "pause" -> ProcessUiQueue(StopPositionTimer(w1), load, fault)
               [] OTHER -> ProcessUiQueue(w1, load, fault)

\* the wall clock and every playing output move on by one unit
Tick(p) == IF Held(p) /\ p.playing THEN [p EXCEPT !.time = Min(@ + 1, TrackDuration)] ELSE p

TimePasses(w) ==
    [w EXCEPT !.player = Tick(@), !.next_player = Tick(@),
              !.crossfade_start_time = IF @ < 0 THEN @ ELSE Min(@ + 1, MaxElapsed)]

\* ------------------------------------------------------------- actions
Loads == {"ok", "missing", "error"}

Faults == {"create", "queue", "start"}

\* the outcome of the load a handler attempted, "none" if it attempted none
LoadOf(path) ==
    CASE Took(path, "missing") -> "missing"
      [] Took(path, "error") -> "error"
      [] Took(path, "immediate") \/ Took(path, "crossfade") \/ Took(path, "abort") -> "ok"
      [] OTHER -> "none"

NoObs == [op |-> "other", song |-> None, load |-> "none", fired |-> <<>>, ran |-> <<>>,
          arg |-> <<>>, errors |-> 0, path |-> <<>>]

Commit(w, op, song) ==
    \E v \in {w} :
        /\ Len(v.ui_queue) <= MaxQueue
        /\ v.orphans <= MaxOrphans
        /\ v.after_crossfade <= MaxAfter
        /\ v.after_position <= MaxAfter
        /\ player' = v.player
        /\ next_player' = v.next_player
        /\ orphans' = v.orphans
        /\ current_song' = v.current_song
        /\ current_source' = v.current_source
        /\ is_playing' = v.is_playing
        /\ is_seeking' = v.is_seeking
        /\ crossfade_enabled' = v.crossfade_enabled
        /\ crossfade_duration' = v.crossfade_duration
        /\ is_crossfading' = v.is_crossfading
        /\ crossfade_start_time' = v.crossfade_start_time
        /\ original_volume' = v.original_volume
        /\ next_song' = v.next_song
        /\ crossfade_timer_id' = v.crossfade_timer_id
        /\ after_crossfade' = v.after_crossfade
        /\ current_index' = v.current_index
        /\ position_update_id' = v.position_update_id
        /\ after_position' = v.after_position
        /\ ui_queue' = v.ui_queue
        /\ feed_items' = v.feed_items
        /\ callbacks' = v.callbacks
        /\ current_playlist' = v.current_playlist
        /\ UNCHANGED <<api_playlists, music_data, api_result>>
        /\ obs' = IF op = "other" THEN NoObs
                  ELSE [op |-> op, song |-> song, load |-> LoadOf(v.path), fired |-> v.fired,
                        ran |-> v.ran, arg |-> v.arg, errors |-> v.errors, path |-> v.path]

\* User input reaches its handler once the UI queue, polled every 50 ms, has
\* been emptied.
Settled == ui_queue = <<>>

FeedSongs == {feed_items[i] : i \in 1..Len(feed_items)}

\* a click on a track of the feed: _handle_play_song -> PlayerController.play_song
HandlePlaySong(loads, faults) ==
    \E song \in FeedSongs, load \in loads, fault \in faults :
        Commit(HandlePlaySongEvent(World, song, load, fault), "play_song", song)

\* a click on a track of an open playlist
PlaySongFromPlaylist ==
    /\ Settled
    /\ \E name \in PlaylistNames :
          \E i \in 1..Len(GetPlaylistSongs(name)), load \in Loads :
              Commit([PlaySongFromPlaylistCall(World, GetPlaylistSongs(name)[i], name, load, "none")
                        EXCEPT !.arg = <<name>>],
                     "play_song_from_playlist", GetPlaylistSongs(name)[i])

\* the play button of a playlist
PlayPlaylist ==
    /\ Settled
    /\ \E name \in PlaylistNames, load \in Loads :
          Commit([PlayPlaylistCall(World, name, load, "none") EXCEPT !.arg = <<name>>],
                 "play_playlist", None)

PlaySong == Settled /\ HandlePlaySong(Loads, {"none"})

PlaySongFault == Settled /\ HandlePlaySong({"ok"}, Faults)

TogglePlay == Settled /\ Commit(EngineTogglePlay(World), "toggle_play", None)

NextSong ==
    /\ Settled
    /\ \E load \in Loads : Commit(NavigateSong(World, 1, load, "none"), "next_song", None)

PrevSong ==
    /\ Settled
    /\ \E load \in Loads : Commit(NavigateSong(World, -1, load, "none"), "prev_song", None)

ChangeVolume ==
    /\ Settled
    /\ \E value \in VolumeChoices :
        Commit([EngineSetVolume(World, value * 10) EXCEPT !.arg = <<value * 10>>],
               "set_volume", None)

\* MusicPlayer.play, pause, seek and set_callback called directly
Play == Settled /\ Commit(EnginePlay(World), "play", None)

Pause == Settled /\ Commit(EnginePause(World), "pause", None)

Seek ==
    /\ Settled
    /\ \E t \in 0..TrackDuration :
        Commit([EngineSeek(World, t) EXCEPT !.arg = <<t>>], "seek", None)

SetCallback ==
    /\ Settled
    /\ \E name \in CallbackNames, handler \in Handlers :
        Commit([SetCallbackTo(World, name, handler) EXCEPT !.arg = <<name, handler>>],
               "set_callback", None)

SliderPress == Settled /\ Commit([World EXCEPT !.is_seeking = TRUE], "other", None)

SliderRelease ==
    /\ Settled
    /\ \E t \in 0..TrackDuration :
        LET w1 == [World EXCEPT !.is_seeking = FALSE]
        IN  Commit(IF w1.current_source # None /\ Duration(w1) > 0 THEN EngineSeek(w1, t) ELSE w1,
                   "other", None)

ToggleCrossfade ==
    Settled /\ Commit([World EXCEPT !.crossfade_enabled = ~@], "other", None)

ChangeCrossfadeDuration ==
    /\ Settled
    /\ \E d \in CrossfadeDurations :
        Commit([World EXCEPT !.crossfade_duration = d], "other", None)

TimerFires(loads) ==
    /\ after_position > 0
    /\ \E tracked \in BOOLEAN, load \in loads :
        /\ tracked => position_update_id = "live"
        /\ ~tracked => after_position > (IF position_update_id = "live" THEN 1 ELSE 0)
        /\ Commit(PositionTimerCallback(World, tracked, load, "none"), "position_timer", None)

PositionTimerFires == TimerFires(Loads)

CrossfadeTimerFires ==
    /\ after_crossfade > 0
    /\ \E tracked \in BOOLEAN :
        /\ tracked => crossfade_timer_id = "live"
        /\ ~tracked => after_crossfade > (IF crossfade_timer_id = "live" THEN 1 ELSE 0)
        /\ Commit([CrossfadeTimerCallback(World, tracked) EXCEPT !.arg = <<tracked>>],
                  "crossfade_timer", None)

QueuePolled(loads) ==
    /\ ui_queue # <<>>
    /\ \E load \in loads : Commit(ProcessUiQueue(World, load, "none"), "process_ui_queue", None)

ProcessQueue == QueuePolled(Loads)

\* one unit of time passes; the UI queue, polled every 50 ms, is empty by then
Advance == Settled /\ Commit(TimePasses(World), "other", None)

\* ---------------------------------------------------- PlaylistService
\* The API's PlaylistService keeps its own PlaylistManager over the playlists
\* of music_data.json.  A playlists dict is a function from the names it
\* holds to the file paths of each playlist's songs, in order.
ApiNames == {"a", "b"}

NoPlaylists == [n \in {} |-> <<>>]

\* lists of distinct songs
SongLists ==
    {q \in UNION {[1..k -> 1..NumTracks] : k \in 0..NumTracks} :
        \A i, j \in 1..Len(q) : i # j => q[i] # q[j]}

StoredPlaylists == UNION {[names -> SongLists] : names \in SUBSET ApiNames}

\* PlaylistService.__init__ -> _load_playlists
LoadPlaylists(stored) ==
    /\ api_playlists = stored
    /\ music_data = stored
    /\ api_result = "none"

Api == [playlists |-> api_playlists, stored |-> music_data, result |-> api_result]

\* _save_playlists: save_data writes the manager's playlists to the file
SavePlaylists(st) == [st EXCEPT !.stored = st.playlists]

\* PlaylistManager.add_to_playlist
ManagerAddToPlaylist(st, playlist_name, song) ==
    IF playlist_name \notin DOMAIN st.playlists
    THEN [st EXCEPT !.result = "False"]
    ELSE IF \E i \in 1..Len(st.playlists[playlist_name]) : st.playlists[playlist_name][i] = song
         THEN [st EXCEPT !.result = "False"]
         ELSE [st EXCEPT !.playlists[playlist_name] = Append(@, song), !.result = "True"]

\* PlaylistManager.remove_from_playlist: no return statement
ManagerRemoveFromPlaylist(st, playlist_name, song) ==
    IF playlist_name \in DOMAIN st.playlists
    THEN [st EXCEPT !.playlists[playlist_name] = SelectSeq(@, LAMBDA s : s # song),
                    !.result = "None"]
    ELSE [st EXCEPT !.result = "None"]

\* PlaylistManager.delete_playlist: no return statement
ManagerDeletePlaylist(st, name) ==
    [st EXCEPT !.playlists = [n \in (DOMAIN st.playlists) \ {name} |-> st.playlists[n]],
               !.result = "None"]

\* "if success: self._save_playlists()" and "return success"
SaveOnSuccess(st) == IF st.result = "True" THEN SavePlaylists(st) ELSE st

\* PlaylistService.create_playlist: the manager's create_playlist takes the
\* name alone, so the call with (name, description) raises TypeError
ServiceCreatePlaylist(st, name) ==
    IF name \in DOMAIN st.playlists
    THEN [st EXCEPT !.result = "False"]
    ELSE [st EXCEPT !.result = "TypeError"]

\* PlaylistService.delete_playlist
ServiceDeletePlaylist(st, name) ==
    IF name \notin DOMAIN st.playlists
    THEN [st EXCEPT !.result = "False"]
    ELSE SaveOnSuccess(ManagerDeletePlaylist(st, name))

\* PlaylistService.add_to_playlist
ServiceAddToPlaylist(st, playlist_name, song) ==
    SaveOnSuccess(ManagerAddToPlaylist(st, playlist_name, song))

\* PlaylistService.remove_from_playlist
ServiceRemoveFromPlaylist(st, playlist_name, song) ==
    SaveOnSuccess(ManagerRemoveFromPlaylist(st, playlist_name, song))

appVars == <<player, next_player, orphans, current_song, current_source, is_playing,
             is_seeking, crossfade_enabled, crossfade_duration, is_crossfading,
             crossfade_start_time, original_volume, next_song, crossfade_timer_id,
             after_crossfade, current_index, position_update_id, after_position,
             ui_queue, feed_items, callbacks, current_playlist, obs>>

\* one call of the service returns
Returns(st) ==
    /\ api_playlists' = st.playlists
    /\ music_data' = st.stored
    /\ api_result' = st.result
    /\ UNCHANGED appVars

CreatePlaylist == \E name \in ApiNames : Returns(ServiceCreatePlaylist(Api, name))

DeletePlaylist == \E name \in ApiNames : Returns(ServiceDeletePlaylist(Api, name))

AddToPlaylist ==
    \E name \in ApiNames, song \in 1..NumTracks : Returns(ServiceAddToPlaylist(Api, name, song))

RemoveFromPlaylist ==
    \E name \in ApiNames, song \in 1..NumTracks :
        Returns(ServiceRemoveFromPlaylist(Api, name, song))

\* ------------------------------------------------------------- Init
\* the program after MusicApp.__init__, with the feed and the settings it loaded
Boot(feed, duration) ==
    [player |-> [NewPlayer EXCEPT !.volume = DEFAULT_VOLUME * 10],
     next_player |-> NoPlayer, orphans |-> 0,
     current_song |-> None, current_source |-> None,
     is_playing |-> FALSE, is_seeking |-> FALSE,
     crossfade_enabled |-> DEFAULT_CROSSFADE_ENABLED,
     crossfade_duration |-> duration,
     is_crossfading |-> FALSE, crossfade_start_time |-> -1,
     original_volume |-> DEFAULT_VOLUME * 10, next_song |-> None,
     crossfade_timer_id |-> "none", after_crossfade |-> 0, current_index |-> 0,
     position_update_id |-> "none", after_position |-> 0, ui_queue |-> <<>>,
     feed_items |-> feed, callbacks |-> Registered, current_playlist |-> NoPlaylist,
     fired |-> <<>>, ran |-> <<>>, arg |-> <<>>, errors |-> 0, path |-> <<>>]

StartApp(w) ==
    /\ player = w.player
    /\ next_player = w.next_player
    /\ orphans = w.orphans
    /\ current_song = w.current_song
    /\ current_source = w.current_source
    /\ is_playing = w.is_playing
    /\ is_seeking = w.is_seeking
    /\ crossfade_enabled = w.crossfade_enabled
    /\ crossfade_duration = w.crossfade_duration
    /\ is_crossfading = w.is_crossfading
    /\ crossfade_start_time = w.crossfade_start_time
    /\ original_volume = w.original_volume
    /\ next_song = w.next_song
    /\ crossfade_timer_id = w.crossfade_timer_id
    /\ after_crossfade = w.after_crossfade
    /\ current_index = w.current_index
    /\ position_update_id = w.position_update_id
    /\ after_position = w.after_position
    /\ ui_queue = w.ui_queue
    /\ feed_items = w.feed_items
    /\ callbacks = w.callbacks
    /\ current_playlist = w.current_playlist
    /\ obs = NoObs

\* the program started over an empty music_data.json
Start(w) == StartApp(w) /\ LoadPlaylists(NoPlaylists)

Init == \E d \in CrossfadeDurations : Start(Boot(Feed(NumTracks), d))

Next ==
    \/ PlaySong
    \/ TogglePlay
    \/ NextSong
    \/ ToggleCrossfade
    \/ PositionTimerFires
    \/ CrossfadeTimerFires
    \/ ProcessQueue
    \/ Advance

Spec == Init /\ [][Next]_vars

\* Clicks on tracks whose files load, with an incoming output that can fail
\* to be created, queued or started, and with the crossfade duration slider.
\* Every file loads when clicked.
PlaySongLoaded == Settled /\ HandlePlaySong({"ok"}, {"none"})

TrackerTick == TimerFires({"ok"})

QueueRun == QueuePolled({"ok"})

NextFault ==
    \/ PlaySongLoaded
    \/ PlaySongFault
    \/ ToggleCrossfade
    \/ ChangeCrossfadeDuration
    \/ PositionTimerFires
    \/ CrossfadeTimerFires
    \/ ProcessQueue
    \/ Advance

SpecFault == Init /\ [][NextFault]_vars

\* The first track of the feed plays and crossfade has been switched on; the
\* user clicks tracks whose files load and moves the volume and the crossfade
\* duration sliders.
NextVolume ==
    \/ PlaySongLoaded
    \/ ChangeVolume
    \/ ChangeCrossfadeDuration
    \/ PositionTimerFires
    \/ CrossfadeTimerFires
    \/ ProcessQueue
    \/ Advance

\* The same start; every file loads and the user clicks tracks while
\* handlers, some of which raise, are registered with the engine.
NextCallbacks ==
    \/ PlaySongLoaded
    \/ SetCallback
    \/ TrackerTick
    \/ CrossfadeTimerFires
    \/ QueueRun
    \/ Advance

\* The engine's transport calls: every file loads and the user clicks tracks,
\* switches crossfade on and off, and calls play, pause, toggle_play and seek.
NextTransport ==
    \/ PlaySongLoaded
    \/ Play
    \/ Pause
    \/ TogglePlay
    \/ Seek
    \/ ToggleCrossfade
    \/ TrackerTick
    \/ CrossfadeTimerFires
    \/ QueueRun
    \/ Advance

SpecTransport == Init /\ [][NextTransport]_vars

\* Unattended playback: the first track of the feed was clicked with crossfade
\* disabled, the queued UI update ran, and from then on only the timers and
\* the clock act and every file loads.
Unattended(n, duration) ==
    LET w == ProcessUiQueue(ControllerPlaySong(Boot(Feed(n), duration), 1, "ok", "none"),
                            "ok", "none")
    IN  [w EXCEPT !.fired = <<>>, !.ran = <<>>, !.path = <<>>]

InitUnattended ==
    \E n \in 1..(NumTracks + 1), d \in CrossfadeDurations : Start(Unattended(n, d))

\* the state of NextVolume's first step
Fadeable(n, duration) == [Unattended(n, duration) EXCEPT !.crossfade_enabled = TRUE]

InitVolume == \E d \in CrossfadeDurations : Start(Fadeable(NumTracks, d))

SpecVolume == InitVolume /\ [][NextVolume]_vars

SpecCallbacks == InitVolume /\ [][NextCallbacks]_vars

NextUnattended ==
    \/ TrackerTick
    \/ QueueRun
    \/ Advance

\* Tk runs every pending callback and the clock does not stop.
SpecUnattended ==
    /\ InitUnattended
    /\ [][NextUnattended]_vars
    /\ WF_vars(TrackerTick)
    /\ WF_vars(QueueRun)
    /\ WF_vars(Advance)

\* The position slider: every file loads and the user clicks tracks, toggles
\* play and pause, switches crossfade on and off, and presses and releases
\* the position slider.
NextSeeking ==
    \/ PlaySongLoaded
    \/ TogglePlay
    \/ SliderPress
    \/ SliderRelease
    \/ ToggleCrossfade
    \/ TrackerTick
    \/ CrossfadeTimerFires
    \/ QueueRun
    \/ Advance

SpecSeeking == Init /\ [][NextSeeking]_vars

\* The crossfade curve by itself: a fade of one of several durations has
\* started at one of several volumes, and the progress and the two volumes of
\* lines 171-182 are computed and applied at increasing elapsed times.
CurveDurations == {1, 2, 3, 6}

CurveVolumes == VolumeChoices \cup {100}

\* the last elapsed time sampled, one unit past the end of the longest fade
MaxSample ==
    UnitsPerSecond * (CHOOSE d \in CurveDurations : \A x \in CurveDurations : x <= d) + 1

Sampled(n, duration, volume) ==
    LET w0 == EngineSetVolume([Fadeable(n, 1) EXCEPT !.crossfade_duration = duration],
                              volume * 10)
        w1 == ControllerPlaySong(w0, n, "ok", "none")
    IN  [w1 EXCEPT !.fired = <<>>, !.ran = <<>>, !.path = <<>>]

InitCurve ==
    \E d \in CurveDurations, volume \in CurveVolumes : Start(Sampled(NumTracks, d, volume))

SampleFade ==
    \E elapsed \in crossfade_start_time..MaxSample :
        LET w == [World EXCEPT !.crossfade_start_time = elapsed]
        IN  Commit([w EXCEPT !.player.volume = CrossfadeSample(w)[2],
                             !.next_player.volume = CrossfadeSample(w)[3],
                             !.arg = CrossfadeSample(w)],
                   "sample", None)

NextCurve == SampleFade

SpecCurve == InitCurve /\ [][NextCurve]_vars

\* Calls that do not wait for the UI queue to be emptied: play, pause,
\* toggle_play and play_song (of a file that loads) made while updates that
\* _on_play and _on_pause queued are still waiting to run.
PlayCall == Commit(EnginePlay(World), "play", None)

PauseCall == Commit(EnginePause(World), "pause", None)

TogglePlayCall == Commit(EngineTogglePlay(World), "toggle_play", None)

PlaySongCall == HandlePlaySong({"ok"}, {"none"})

NextTimer ==
    \/ PlaySongCall
    \/ PlayCall
    \/ PauseCall
    \/ TogglePlayCall
    \/ TrackerTick
    \/ QueueRun
    \/ Advance

SpecTimer == Init /\ [][NextTimer]_vars

\* Unattended playback in which a file may be missing or fail to load each
\* time the tracker asks for it.
NextFailing ==
    \/ PositionTimerFires
    \/ ProcessQueue
    \/ Advance

SpecFailing ==
    /\ InitUnattended
    /\ [][NextFailing]_vars
    /\ WF_vars(PositionTimerFires)
    /\ WF_vars(ProcessQueue)
    /\ WF_vars(Advance)

\* A fade under way: the first track of the feed plays with crossfade
\* switched on, the position slider was dragged to a position, and a track
\* was clicked.
Fading(n, duration, position, song) ==
    LET w == ControllerPlaySong(EngineSeek(Fadeable(n, duration), position), song, "ok", "none")
    IN  [w EXCEPT !.fired = <<>>, !.ran = <<>>, !.path = <<>>]

InitFading ==
    \E d \in CrossfadeDurations, song \in 1..NumTracks, position \in 0..TrackDuration :
        Start(Fading(NumTracks, d, position, song))

NextFading ==
    \/ TrackerTick
    \/ CrossfadeTimerFires
    \/ QueueRun
    \/ Advance

\* From then on no user input arrives, Tk runs every pending callback and the
\* clock does not stop.
SpecFading ==
    /\ InitFading
    /\ [][NextFading]_vars
    /\ WF_vars(TrackerTick)
    /\ WF_vars(CrossfadeTimerFires)
    /\ WF_vars(QueueRun)
    /\ WF_vars(Advance)

\* ----------------------------------------------- playlist context
\* the tracks of a playlist played by hand or to their end
NextPlaylist ==
    \/ PlaySongFromPlaylist
    \/ PlayPlaylist
    \/ PlaySongLoaded
    \/ NextSong
    \/ PrevSong
    \/ TrackerTick
    \/ QueueRun
    \/ Advance

SpecPlaylist == Init /\ [][NextPlaylist]_vars

\* ------------------------------------------------- the API's playlists
InitApi ==
    \E stored \in StoredPlaylists :
        StartApp(Boot(Feed(NumTracks), 0)) /\ LoadPlaylists(stored)

NextApi == CreatePlaylist \/ DeletePlaylist \/ AddToPlaylist \/ RemoveFromPlaylist

SpecApi == InitApi /\ [][NextApi]_vars

\* ------------------------------------------------------------- claims
\* the callbacks of an immediate switch to the song, in order
SwitchCallbacks(song) == <<<<"on_song_change", song>>, <<"on_play", None>>>>

HeldOutputs ==
    (IF Held(player) THEN 1 ELSE 0) + (IF Held(next_player) THEN 1 ELSE 0) + orphans

\* C1: play_song(T) with a file that loads, called while crossfade is
\* disabled, or the duration is 0, or no track is playing, leaves
\* current_song = T and is_playing = TRUE and fires exactly on_song_change(T)
\* and then on_play.
Thm_C1 ==
    [][(/\ obs'.op = "play_song"
        /\ obs'.load = "ok"
        /\ (~crossfade_enabled \/ crossfade_duration = 0 \/ current_song = None \/ ~is_playing))
       => (/\ current_song' = obs'.song
           /\ is_playing'
           /\ obs'.fired = SwitchCallbacks(obs'.song))]_vars

Wit_C1 ==
    /\ obs.op = "play_song"
    /\ obs.load = "ok"
    /\ obs.path = <<"immediate">>
    /\ crossfade_enabled
    /\ current_song = obs.song

\* C2: play_song(T) with a file that loads takes the crossfade path exactly
\* when crossfade_enabled, a current track, is_playing and
\* crossfade_duration > 0 hold at the call; on that path current_song stays
\* the outgoing track and no callback fires in the call, and while the fade
\* lasts current_song changes only when the fade finishes or another call
\* switches immediately.
Thm_C2 ==
    [][/\ (obs'.op = "play_song" /\ obs'.load = "ok")
          => LET cond == /\ crossfade_enabled
                         /\ current_song # None
                         /\ is_playing
                         /\ crossfade_duration > 0
             IN  /\ Took(obs'.path, "crossfade") <=> cond
                 /\ cond => /\ current_song' = current_song
                            /\ obs'.fired = <<>>
                            /\ is_crossfading'
                            /\ next_song' = obs'.song
       /\ (is_crossfading /\ current_song' # current_song)
          => (Took(obs'.path, "finish") \/ Took(obs'.path, "immediate"))]_vars

Wit_C2 ==
    /\ obs.op = "play_song"
    /\ Took(obs.path, "crossfade")
    /\ is_crossfading
    /\ current_song # obs.song
    /\ next_song = obs.song

\* C3: at most one crossfade is active; the engine holds exactly two outputs
\* while is_crossfading and at most one otherwise, and no started output is
\* ever left that is neither the primary nor the incoming one.
Cex_C3 ==
    /\ is_crossfading => HeldOutputs = 2
    /\ ~is_crossfading => HeldOutputs <= 1
    /\ orphans = 0

\* C4: a crossfade tick that computes progress >= 1.0 leaves
\* is_crossfading = FALSE, the pending track as current_song, one output (the
\* former incoming one), the crossfade fields cleared, and has fired
\* on_song_change(next) and then on_play.
Cex_C4 ==
    [][(obs'.op = "crossfade_timer" /\ Took(obs'.path, "complete"))
       => (/\ ~is_crossfading'
           /\ current_song' = next_song
           /\ player'.source = next_song
           /\ HeldOutputs' = 1
           /\ next_player' = NoPlayer
           /\ crossfade_start_time' = -1
           /\ next_song' = None
           /\ obs'.fired = SwitchCallbacks(next_song))]_vars

\* C6: a play_song whose load fails leaves current_song, is_playing, the
\* primary output, is_crossfading and the crossfade fields as they were and
\* fires no callback.
Thm_C6 ==
    [][(obs'.load \in {"missing", "error"})
       => (/\ UNCHANGED <<player, next_player, orphans, current_song, current_source,
                          is_playing, is_crossfading, crossfade_start_time,
                          original_volume, next_song, crossfade_timer_id, after_crossfade>>
           /\ obs'.fired = <<>>)]_vars

Wit_C6 ==
    /\ obs.op = "play_song"
    /\ obs.load = "error"
    /\ is_playing
    /\ player.playing
    /\ current_song # obs.song

\* C7: a play_song whose file does not exist is reported through the error
\* sink, as an unreadable or undecodable file is.
Cex_C7 == (obs.op = "play_song" /\ obs.load = "missing") => obs.errors > 0

\* C5: a failure while the incoming output is created, queued or started, or
\* an error inside a fade tick, ends the fade with the outgoing track still
\* the current track, its output untouched and still playing, and no incoming
\* output promoted.
Cex_C5 ==
    [][(Took(obs'.path, "abort") \/ Took(obs'.path, "tick_error"))
       => (/\ ~is_crossfading'
           /\ next_player' = NoPlayer
           /\ current_song' = current_song
           /\ is_playing' = is_playing
           /\ Held(player')
           /\ player'.source = player.source
           /\ player'.playing = player.playing)]_vars

\* what a tracker tick must observe to start a crossfade by itself
AutoCrossfadeDue ==
    /\ current_source # None
    /\ is_playing
    /\ ~is_seeking
    /\ Duration(World) > 0
    /\ crossfade_enabled
    /\ ~is_crossfading
    /\ crossfade_duration > 0
    /\ Position(World) >= Duration(World) - crossfade_duration * UnitsPerSecond
    /\ current_index < Len(feed_items) - 1

AutoCrossfadeStarted ==
    /\ Took(obs'.path, "crossfade")
    /\ ~Took(obs'.path, "immediate")
    /\ is_crossfading'
    /\ next_song' = feed_items[current_index + 2]
    /\ next_player'.source = feed_items[current_index + 2]
    /\ current_song' = current_song
    /\ current_index' = current_index + 1

AtEndOfTrack == Duration(World) > 0 /\ Position(World) >= Duration(World)

LastSong == feed_items[Len(feed_items)]

\* C9: in unattended playback with crossfade disabled, current_song changes
\* only in a tracker tick at the end of the track and only to the next track
\* of the list, such a tick on a track that is not the last always moves on,
\* playback stops only at the end of the last track with the position back at
\* 0, and in the end playback has stopped on the last track for good.
Thm_C9 ==
    /\ [][/\ (current_song' # current_song)
             => /\ obs'.op = "position_timer"
                /\ AtEndOfTrack
                /\ is_playing'
                /\ \E i \in 1..(Len(feed_items) - 1) :
                      current_song = feed_items[i] /\ current_song' = feed_items[i + 1]
          /\ (obs'.op = "position_timer" /\ is_playing /\ AtEndOfTrack
                /\ current_song # LastSong)
             => current_song' # current_song
          /\ (is_playing /\ ~is_playing')
             => /\ obs'.op = "position_timer"
                /\ AtEndOfTrack
                /\ current_song = LastSong
                /\ ~player'.playing
                /\ player'.time = 0]_vars
    /\ <>[](~is_playing /\ current_song = LastSong /\ player.time = 0)

Wit_C9 ==
    /\ obs.op = "position_timer"
    /\ Took(obs.path, "stop")
    /\ Len(feed_items) = NumTracks + 1
    /\ current_song = LastSong
    /\ ~is_playing
    /\ player.time = 0

\* C10: a tracker tick that observes the end of the last track of the list
\* stops playback, resets the position to 0 and cancels the position timer,
\* whatever the crossfade settings.
Cex_C10 ==
    [][(/\ obs'.op = "position_timer"
        /\ current_source # None
        /\ is_playing
        /\ ~is_seeking
        /\ ~is_crossfading
        /\ AtEndOfTrack
        /\ current_song = LastSong
        /\ current_index = Len(feed_items) - 1)
       => (/\ ~is_playing'
           /\ ~player'.playing
           /\ player'.time = 0
           /\ position_update_id' = "none")]_vars

\* C11: a step that finishes a crossfade leaves the promoted primary output
\* at original_volume, the fade reference in force when the fade finished.
Thm_C11 ==
    [][(obs'.op = "crossfade_timer" /\ Took(obs'.path, "finish"))
       => (/\ player'.volume = original_volume
           /\ original_volume' = original_volume)]_vars

Wit_C11 ==
    /\ obs.op = "crossfade_timer"
    /\ Took(obs.path, "tick_error")
    /\ Took(obs.path, "finish")
    /\ Held(player)
    /\ original_volume # DEFAULT_VOLUME * 10
    /\ player.volume = original_volume

\* C12: set_volume(v) makes v the fade reference, also during a crossfade; a
\* fade tick sets the two outputs to the reference times the curve weights;
\* and the reference changes only in set_volume or when a crossfade starts.
Thm_C12 ==
    [][/\ (obs'.op = "set_volume") => original_volume' = obs'.arg[1]
       /\ (obs'.op = "crossfade_timer" /\ Took(obs'.path, "fade"))
          => /\ player'.volume =
                  Scale(original_volume, FadeOutVolume(crossfade_start_time, crossfade_duration))
             /\ next_player'.volume =
                  Scale(original_volume, FadeInVolume(crossfade_start_time, crossfade_duration))
       /\ (original_volume' # original_volume)
          => (obs'.op = "set_volume" \/ Took(obs'.path, "crossfade"))]_vars

Wit_C12 ==
    /\ obs.op = "set_volume"
    /\ is_crossfading
    /\ crossfade_start_time > 0
    /\ obs.arg[1] # DEFAULT_VOLUME * 10
    /\ original_volume = obs.arg[1]

\* C13: after set_volume(v) during a crossfade whose fade-out weight is below
\* 1 the outgoing output is not at the full level v.
Cex_C13 ==
    [][(/\ obs'.op = "set_volume"
        /\ is_crossfading
        /\ crossfade_start_time >= 0
        /\ crossfade_duration > 0
        /\ FadeOutVolume(crossfade_start_time, crossfade_duration) < 1000)
       => player'.volume < obs'.arg[1]]_vars

\* the playback and crossfade state of the engine
EngineView(w) ==
    <<w.player, w.next_player, w.orphans, w.current_song, w.current_source, w.is_playing,
      w.is_crossfading, w.crossfade_start_time, w.original_volume, w.next_song,
      w.crossfade_timer_id, w.after_crossfade>>

\* the program with handlers that all return normally
Normal(w) == [w EXCEPT !.callbacks = Registered]

SameOutcome(w) == \E v \in {w} : EngineView(World') = EngineView(v) /\ obs'.fired = v.fired

\* C14: whatever handlers raise, play_song, a crossfade tick and a tracker
\* tick leave the engine in the state they reach when every handler returns
\* normally, and invoke the same callbacks in the same order.
Thm_C14 ==
    [][/\ (obs'.op = "play_song")
          => SameOutcome(ControllerPlaySong(Normal(World), obs'.song, "ok", "none"))
       /\ (obs'.op = "crossfade_timer")
          => \E tracked \in BOOLEAN :
                SameOutcome(CrossfadeTimerCallback(Normal(World), tracked))
       /\ (obs'.op = "position_timer")
          => \E tracked \in BOOLEAN :
                SameOutcome(PositionTimerCallback(
                              Normal(World), tracked,
                              IF obs'.load = "none" THEN "ok" ELSE obs'.load, "none"))]_vars

Wit_C14 ==
    /\ obs.op = "play_song"
    /\ obs.ran = <<"raises", "ui">>
    /\ obs.fired = SwitchCallbacks(obs.song)
    /\ current_song = obs.song
    /\ is_playing

\* C15: set_callback(name, h) makes h the handler of the name and changes no
\* other name, nothing else changes a handler, and every callback the engine
\* invokes runs the handler registered last under its name.
Thm_C15 ==
    [][/\ (obs'.op = "set_callback")
          => callbacks' = [callbacks EXCEPT ![obs'.arg[1]] = obs'.arg[2]]
       /\ (callbacks' # callbacks) => obs'.op = "set_callback"
       /\ Len(obs'.ran) = Len(obs'.fired)
       /\ \A i \in 1..Len(obs'.fired) : obs'.ran[i] = callbacks[obs'.fired[i][1]]]_vars

Wit_C15 ==
    /\ obs.op = "play_song"
    /\ callbacks["on_play"] = "raises"
    /\ callbacks["on_song_change"] = "ui"
    /\ obs.fired = SwitchCallbacks(obs.song)
    /\ obs.ran = <<"ui", "raises">>

\* C16: seek while no source is loaded changes nothing, and position and
\* duration read 0 whenever no source is loaded.
Thm_C16 ==
    [][/\ (obs'.op = "seek" /\ player.source = None)
          => EngineView(World') = EngineView(World)
       /\ (player'.source = None)
          => (Position(World') = 0 /\ Duration(World') = 0)]_vars

Wit_C16 ==
    /\ obs.op = "seek"
    /\ obs.arg[1] > 0
    /\ player.source = None
    /\ player.time = 0

\* C17: toggle_play flips is_playing, pauses or starts the primary output
\* accordingly and fires exactly on_pause when it paused and exactly on_play
\* when it started playing.
Thm_C17 ==
    [][(obs'.op = "toggle_play")
       => (/\ is_playing' = ~is_playing
           /\ player'.playing = is_playing'
           /\ obs'.fired = <<<<IF is_playing THEN "on_pause" ELSE "on_play", None>>>>)]_vars

Wit_C17 ==
    /\ obs.op = "toggle_play"
    /\ current_song # None
    /\ ~is_playing
    /\ ~player.playing
    /\ obs.fired = <<<<"on_pause", None>>>>

\* C18: after pause() a second pause() leaves the playback state as it is
\* (is_playing FALSE, same track, same crossfade fields), and a pause() in a
\* paused state changes nothing; likewise for play().
Thm_C18 ==
    [][/\ (obs'.op = "pause")
          => /\ ~is_playing'
             /\ current_song' = current_song
             /\ EngineView(EnginePause(World')) = EngineView(World')
             /\ (~is_playing /\ ~player.playing) => EngineView(World') = EngineView(World)
       /\ (obs'.op = "play")
          => /\ is_playing'
             /\ current_song' = current_song
             /\ EngineView(EnginePlay(World')) = EngineView(World')
             /\ (is_playing /\ player.playing) => EngineView(World') = EngineView(World)]_vars

Wit_C18 ==
    /\ obs.op = "pause"
    /\ is_crossfading
    /\ current_song # None
    /\ ~is_playing
    /\ ~player.playing

\* C19: while is_crossfading the incoming output, the start time and the
\* pending track are set and a crossfade timer callback is pending; two
\* started outputs never exist without a pending crossfade timer callback;
\* and no incoming output is held while is_crossfading is FALSE.
Cex_C19 ==
    /\ is_crossfading
       => /\ Held(next_player)
          /\ crossfade_start_time >= 0
          /\ next_song # None
          /\ after_crossfade > 0
    /\ HeldOutputs >= 2 => after_crossfade > 0
    /\ ~is_crossfading => ~next_player.exists

\* C20: a tracker tick during a crossfade starts no crossfade, switches no
\* track and does not stop playback, whatever position it observes.
Cex_C20 ==
    [][(obs'.op = "position_timer" /\ is_crossfading)
       => (/\ ~Took(obs'.path, "crossfade")
           /\ ~Took(obs'.path, "immediate")
           /\ ~Took(obs'.path, "stop")
           /\ is_playing' = is_playing
           /\ current_song' = current_song
           /\ next_song' = next_song
           /\ next_player' = next_player)]_vars

\* C21: with fair timers, a running clock and no user input, a state with
\* is_crossfading is always followed by a state with is_crossfading FALSE in
\* which the track that was pending is the current track and no incoming
\* output is left.
Cex_C21 ==
    \A song \in 1..NumTracks :
        (is_crossfading /\ next_song = song)
            ~> (~is_crossfading /\ current_song = song /\ ~next_player.exists)

\* C22: at most one position timer callback is pending at any time, and it is
\* the one the stored handle names.
Thm_C22 ==
    /\ after_position <= 1
    /\ after_position = (IF position_update_id = "live" THEN 1 ELSE 0)

Wit_C22 ==
    /\ obs.op = "play"
    /\ ui_queue = <<"play", "pause", "play">>
    /\ is_playing
    /\ position_update_id = "live"
    /\ after_position = 1

\* C23: at the end of a tracker tick a position timer callback is pending and
\* named by the handle exactly when is_playing holds and a source is loaded;
\* otherwise none is pending and the handle is cleared.
Thm_C23 ==
    [][(obs'.op = "position_timer")
       => IF is_playing' /\ current_source' # None
          THEN position_update_id' = "live" /\ after_position' = 1
          ELSE position_update_id' = "none" /\ after_position' = 0]_vars

Wit_C23 ==
    /\ obs.op = "position_timer"
    /\ Took(obs.path, "skip")
    /\ ~is_playing
    /\ current_source # None
    /\ position_update_id = "none"
    /\ after_position = 0

\* C24: in the state right after pause() no position timer callback is
\* pending.
Cex_C24 == [][(obs'.op = "pause") => after_position' = 0]_vars

\* C25: in the state right after a crossfade was finished or aborted no
\* crossfade timer callback is pending.
Cex_C25 ==
    [][(Took(obs'.path, "finish") \/ Took(obs'.path, "abort") \/ Took(obs'.path, "tick_error"))
       => after_crossfade' = 0]_vars

\* C26: a crossfade timer callback left pending by an earlier fade that fires
\* right after play_song has started another fade changes no output, track
\* or flag and does not re-arm itself.
Cex_C26 ==
    [][(/\ obs.op = "play_song"
        /\ Took(obs.path, "crossfade")
        /\ obs'.op = "crossfade_timer"
        /\ obs'.arg = <<FALSE>>)
       => (/\ UNCHANGED <<player, next_player, current_song, current_source, is_playing,
                          is_crossfading, crossfade_start_time, original_volume, next_song>>
           /\ after_crossfade' = after_crossfade - 1)]_vars

\* C27: right after a crossfade has started from a state with no fade running,
\* original_volume is the volume the primary output had, the primary output
\* keeps its volume, the incoming output exists with the pending track
\* queued, volume 0 and playing, the start time is recorded, is_crossfading
\* holds and a crossfade timer callback named by the handle is pending.
Thm_C27 ==
    [][(Took(obs'.path, "crossfade") /\ ~is_crossfading)
       => (/\ original_volume' = player.volume
           /\ player'.volume = player.volume
           /\ next_player'.exists
           /\ next_player'.source = next_song'
           /\ next_song' # None
           /\ next_player'.volume = 0
           /\ next_player'.playing
           /\ crossfade_start_time' = 0
           /\ is_crossfading'
           /\ crossfade_timer_id' = "live"
           /\ after_crossfade' = after_crossfade + 1)]_vars

Wit_C27 ==
    /\ obs.op = "play_song"
    /\ obs.path = <<"crossfade">>
    /\ orphans = 0
    /\ original_volume = 400
    /\ player.volume = 400
    /\ next_player.volume = 0
    /\ next_player.playing
    /\ next_player.source = obs.song
    /\ crossfade_start_time = 0
    /\ crossfade_timer_id = "live"
    /\ after_crossfade = 1

Cex_C29 ==
    (obs.op = "sample")
        => LET d == obs.arg[2] * obs.arg[2] + obs.arg[3] * obs.arg[3]
                        - original_volume * original_volume
           IN  d <= 1000 /\ d >= -1000

\* C30: a tracker tick that runs while is_seeking holds, or is_playing does
\* not, or no source is loaded, changes neither the current track,
\* current_index, is_playing, the outputs nor any crossfade field, fires no
\* callback, and leaves a position timer callback pending exactly when
\* is_playing holds and a source is loaded.
Thm_C30 ==
    [][(obs'.op = "position_timer" /\ (is_seeking \/ ~is_playing \/ current_source = None))
       => (/\ obs'.path = <<"skip">>
           /\ obs'.fired = <<>>
           /\ EngineView(World') = EngineView(World)
           /\ UNCHANGED <<current_index, is_seeking, crossfade_enabled, crossfade_duration,
                          ui_queue>>
           /\ IF is_playing /\ current_source # None
              THEN position_update_id' = "live" /\ after_position' = 1
              ELSE position_update_id' = "none" /\ after_position' = 0)]_vars

Wit_C30 ==
    /\ obs.op = "position_timer"
    /\ obs.path = <<"skip">>
    /\ is_seeking
    /\ is_playing
    /\ crossfade_enabled
    /\ current_index < Len(feed_items) - 1
    /\ player.time = TrackDuration
    /\ position_update_id = "live"

\* C31: while no set_volume call is made the user's level is the one the
\* program started with, and whenever no fade is running and a track is
\* loaded the primary output is at that level.
Cex_C31 == (~is_crossfading /\ current_song # None) => player.volume = DEFAULT_VOLUME * 10

\* C32: pause() during a crossfade leaves no output playing, and a crossfade
\* tick that follows it neither sets is_playing nor fires on_play.
Cex_C32 ==
    [][/\ (obs'.op = "pause" /\ is_crossfading)
          => (~is_playing' /\ ~player'.playing /\ ~next_player'.playing)
       /\ (obs.op = "pause" /\ is_crossfading /\ obs'.op = "crossfade_timer")
          => (~is_playing' /\ obs'.fired = <<>>)]_vars

\* C33: after play_song(T) has switched immediately to T, a crossfade tick
\* leaves T the current track.
Cex_C33 ==
    [][(/\ obs.op = "play_song"
        /\ Took(obs.path, "immediate")
        /\ current_song = obs.song
        /\ obs'.op = "crossfade_timer")
       => current_song' = obs.song]_vars

\* C34: whenever no fade is running and current_song is in the feed,
\* current_index is the index of current_song in the feed.
Cex_C34 ==
    (~is_crossfading /\ current_song \in FeedSongs)
        => current_index = IndexOf(feed_items, current_song)

\* C35: no tracker tick switches, or starts a crossfade, from the last track
\* of the feed to its first track.
Cex_C35 ==
    [][(obs'.op = "position_timer" /\ Len(feed_items) > 1 /\ current_song = LastSong)
       => (/\ ~(Took(obs'.path, "immediate") /\ current_song' = feed_items[1])
           /\ ~(Took(obs'.path, "crossfade") /\ next_song' = feed_items[1]))]_vars

\* C36: unattended playback with crossfade disabled ends stopped, with no
\* position timer callback pending, also when files fail to load.
Cex_C36 == <>(~is_playing /\ after_position = 0)

\* C37: is_playing never holds while there is no current track.
Cex_C37 == is_playing => current_song # None

\* C38: once play_song_from_playlist(song, P) has been handled, the playlist
\* context is P.
Cex_C38 ==
    [][(obs'.op = "play_song_from_playlist") => current_playlist' = obs'.arg[1]]_vars

\* C39: after every PlaylistService call the stored playlists equal the
\* in-memory ones, and a call that changed the in-memory playlists returned True.
Cex_C39 ==
    [][/\ music_data' = api_playlists'
       /\ (api_playlists' # api_playlists) => api_result' = "True"]_vars

====
